---- MODULE Spec2Model ----
(***************************************************************************)
(* A model of generate_workflow.py: the configuration loader, the project  *)
(* analyzer, the advisory enrichment and the artifact generator of         *)
(* PipelineGenerator.generate_pipeline.                                    *)
(*                                                                         *)
(* A Python str is a sequence of one-character strings, so that strip,     *)
(* split, lower and int() are computed the way Python computes them.       *)
(***************************************************************************)
EXTENDS Integers, Sequences, FiniteSets, TLC

\* ------------------------------------------------------------------ bounds
\* longest VERSION content drawn in SpecVersion
MaxVerLen == 5
\* consecutive runs of the generator on one project tree
MaxRuns == 2

\* ------------------------------------------------------------ Python strings
Digits == <<"0", "1", "2", "3", "4", "5", "6", "7", "8", "9">>

IsDigit(c) == \E i \in 1..10 : Digits[i] = c

DigitVal(c) == (CHOOSE i \in 1..10 : Digits[i] = c) - 1

\* str.isspace for the characters the model uses
IsSpace(c) == c \in {" ", "\t", "\n"}

UpperLetters ==
    <<"A", "B", "C", "D", "E", "F", "G", "H", "I", "J", "K", "L", "M",
      "N", "O", "P", "Q", "R", "S", "T", "U", "V", "W", "X", "Y", "Z">>

LowerLetters ==
    <<"a", "b", "c", "d", "e", "f", "g", "h", "i", "j", "k", "l", "m",
      "n", "o", "p", "q", "r", "s", "t", "u", "v", "w", "x", "y", "z">>

\* str.lower, character by character
LowerChar(c) ==
    IF \E i \in 1..26 : UpperLetters[i] = c
    THEN LowerLetters[CHOOSE i \in 1..26 : UpperLetters[i] = c]
    ELSE c

Lower(s) == [i \in DOMAIN s |-> LowerChar(s[i])]

RECURSIVE LStrip(_)
LStrip(s) ==
    IF s = <<>> THEN <<>>
    ELSE IF IsSpace(Head(s)) THEN LStrip(Tail(s)) ELSE s

RECURSIVE RStrip(_)
RStrip(s) ==
    IF s = <<>> THEN <<>>
    ELSE IF IsSpace(s[Len(s)]) THEN RStrip(SubSeq(s, 1, Len(s) - 1)) ELSE s

\* str.strip()
Strip(s) == RStrip(LStrip(s))

\* index of the first occurrence of character c in s, 0 when there is none
IndexOf(s, c) ==
    IF \E i \in DOMAIN s : s[i] = c
    THEN CHOOSE i \in DOMAIN s : s[i] = c /\ \A j \in 1..(i - 1) : s[j] # c
    ELSE 0

\* str.split(c): the pieces between the occurrences of c (never empty)
RECURSIVE Split(_, _)
Split(s, c) ==
    LET i == IndexOf(s, c)
    IN IF i = 0 THEN <<s>>
       ELSE <<SubSeq(s, 1, i - 1)>> \o Split(SubSeq(s, i + 1, Len(s)), c)

\* the digits and single underscores int() accepts after the sign
IsIntBody(b) ==
    /\ b # <<>>
    /\ \A i \in DOMAIN b : IsDigit(b[i]) \/ b[i] = "_"
    /\ IsDigit(b[1]) /\ IsDigit(b[Len(b)])
    /\ \A i \in 1..(Len(b) - 1) : ~(b[i] = "_" /\ b[i + 1] = "_")

Unsigned(t) == IF t # <<>> /\ Head(t) \in {"+", "-"} THEN Tail(t) ELSE t

\* whether int(s) succeeds on a str (otherwise it raises ValueError)
IsIntStr(s) == IsIntBody(Unsigned(Strip(s)))

RECURSIVE DigitsVal(_)
DigitsVal(b) ==
    IF b = <<>> THEN 0
    ELSE IF b[Len(b)] = "_" THEN DigitsVal(SubSeq(b, 1, Len(b) - 1))
    ELSE 10 * DigitsVal(SubSeq(b, 1, Len(b) - 1)) + DigitVal(b[Len(b)])

\* int(s) for a str int() accepts
IntOf(s) ==
    LET t == Strip(s)
    IN IF t # <<>> /\ Head(t) = "-" THEN 0 - DigitsVal(Unsigned(t))
       ELSE DigitsVal(Unsigned(t))

RECURSIVE NatToStr(_)
NatToStr(n) ==
    IF n < 10 THEN <<Digits[n + 1]>>
    ELSE NatToStr(n \div 10) \o <<Digits[(n % 10) + 1]>>

\* str(n), the text an f-string writes for an int
IntToStr(n) == IF n < 0 THEN <<"-">> \o NatToStr(0 - n) ELSE NatToStr(n)

\* "a" + sep + "b" + sep + "c" for the three pieces of an f-string
Join3(a, b, c, sep) == a \o <<sep>> \o b \o <<sep>> \o c

RECURSIVE StrsOfLen(_, _)
StrsOfLen(A, n) ==
    IF n = 0 THEN {<<>>}
    ELSE {<<c>> \o s : c \in A, s \in StrsOfLen(A, n - 1)}

\* every str over alphabet A of at most n characters
StrsUpTo(A, n) == UNION {StrsOfLen(A, k) : k \in 0..n}

\* ------------------------------------------------------------- Python values
\* A config or analysis value: a str, a list of str, or an int.
PyStr(s) == [t |-> "str", v |-> s]
PyList(l) == [t |-> "list", v |-> l]
PyInt(n) == [t |-> "int", v |-> n]

\* dict.get(k, d) on a dict modelled as a function over the keys it holds
Get(d, k, dflt) == IF k \in DOMAIN d THEN d[k] ELSE dflt

\* d[k] = v
Put(d, k, v) == [x \in DOMAIN d \cup {k} |-> IF x = k THEN v ELSE d[x]]

EmptyDict == [x \in {} |-> 0]

RECURSIVE JoinStrs(_, _)
JoinStrs(l, sep) ==
    IF l = <<>> THEN <<>>
    ELSE IF Len(l) = 1 THEN l[1]
    ELSE l[1] \o sep \o JoinStrs(Tail(l), sep)

\* repr() of a list of str, the text an f-string writes for a list
ReprList(l) ==
    <<"[">> \o JoinStrs([i \in DOMAIN l |-> <<"'">> \o l[i] \o <<"'">>],
                        <<",", " ">>) \o <<"]">>

\* the text an f-string writes for a value
Format(x) ==
    CASE x.t = "str" -> x.v
      [] x.t = "int" -> IntToStr(x.v)
      [] x.t = "list" -> ReprList(x.v)

\* -------------------------------------------------------------- the literals
K_pipeline_name ==
    <<"p", "i", "p", "e", "l", "i", "n", "e", "_", "n", "a", "m", "e">>
K_environment == <<"e", "n", "v", "i", "r", "o", "n", "m", "e", "n", "t">>
K_target == <<"t", "a", "r", "g", "e", "t">>
K_instance_type ==
    <<"i", "n", "s", "t", "a", "n", "c", "e", "_", "t", "y", "p", "e">>
K_deploy_using ==
    <<"d", "e", "p", "l", "o", "y", "_", "u", "s", "i", "n", "g">>
K_labels == <<"l", "a", "b", "e", "l", "s">>
K_email_notification ==
    <<"e", "m", "a", "i", "l", "_", "n", "o", "t", "i", "f", "i", "c",
      "a", "t", "i", "o", "n">>
K_email_recipient ==
    <<"e", "m", "a", "i", "l", "_", "r", "e", "c", "i", "p", "i", "e",
      "n", "t">>
K_backend_port ==
    <<"b", "a", "c", "k", "e", "n", "d", "_", "p", "o", "r", "t">>
K_frontend_port ==
    <<"f", "r", "o", "n", "t", "e", "n", "d", "_", "p", "o", "r", "t">>
K_ami == <<"a", "m", "i">>
S_auto_generated_pipeline ==
    <<"a", "u", "t", "o", "-", "g", "e", "n", "e", "r", "a", "t", "e",
      "d", "-", "p", "i", "p", "e", "l", "i", "n", "e">>
S_production == <<"p", "r", "o", "d", "u", "c", "t", "i", "o", "n">>
S_aws_ec2 == <<"a", "w", "s", "_", "e", "c", "2">>
S_t2_micro == <<"t", "2", ".", "m", "i", "c", "r", "o">>
S_t3_micro == <<"t", "3", ".", "m", "i", "c", "r", "o">>
S_docker_compose ==
    <<"d", "o", "c", "k", "e", "r", "-", "c", "o", "m", "p", "o", "s",
      "e">>
S_ai_generated ==
    <<"a", "i", "-", "g", "e", "n", "e", "r", "a", "t", "e", "d">>
S_demo == <<"d", "e", "m", "o">>
S_true == <<"t", "r", "u", "e">>
S_false == <<"f", "a", "l", "s", "e">>
S_demo_example_com ==
    <<"d", "e", "m", "o", "@", "e", "x", "a", "m", "p", "l", "e", ".",
      "c", "o", "m">>
S_0_1_0 == <<"0", ".", "1", ".", "0">>
S_0_1_1 == <<"0", ".", "1", ".", "1">>
S_AI_Generated_Pipeline ==
    <<"A", "I", "-", "G", "e", "n", "e", "r", "a", "t", "e", "d", " ",
      "P", "i", "p", "e", "l", "i", "n", "e">>
S_dev == <<"d", "e", "v">>
S_qr_generator ==
    <<"q", "r", "-", "g", "e", "n", "e", "r", "a", "t", "o", "r">>
S_latest_ubuntu ==
    <<"l", "a", "t", "e", "s", "t", "-", "u", "b", "u", "n", "t", "u">>
S_3000 == <<"3", "0", "0", "0">>
S_8000 == <<"8", "0", "0", "0">>

\* ------------------------------------------------------------------- files
\* What a path holds: nothing, a file whose read raises, or a file's content.
Absent == [k |-> "absent"]
Unreadable == [k |-> "unreadable"]
File(x) == [k |-> "file", v |-> x]

\* Path.exists()
Exists(f) == f.k # "absent"

\* ------------------------------------------------------------- Config Loader
DefaultConfig ==
    (K_pipeline_name :> PyStr(S_auto_generated_pipeline))
    @@ (K_environment :> PyStr(S_production))
    @@ (K_target :> PyStr(S_aws_ec2))
    @@ (K_instance_type :> PyStr(S_t2_micro))
    @@ (K_deploy_using :> PyStr(S_docker_compose))
    @@ (K_labels :> PyList(<<S_ai_generated, S_demo>>))
    @@ (K_email_notification :> PyStr(S_true))
    @@ (K_email_recipient :> PyStr(S_demo_example_com))

\* value.startswith('[') and value.endswith(']'): value[1:-1].split(','),
\* each element stripped; any other value stays the stripped str
ParseValue(value) ==
    IF value # <<>> /\ Head(value) = "[" /\ value[Len(value)] = "]"
    THEN LET parts == Split(SubSeq(value, 2, Len(value) - 1), ",")
         IN PyList([i \in DOMAIN parts |-> Strip(parts[i])])
    ELSE PyStr(value)

\* one line of the override file applied to the config read so far
ParseLine(config, raw) ==
    LET line == Strip(raw)
        i == IndexOf(line, ":")
    IN IF line = <<>> \/ Head(line) = "#" \/ i = 0 THEN config
       ELSE Put(config, Strip(SubSeq(line, 1, i - 1)),
                ParseValue(Strip(SubSeq(line, i + 1, Len(line)))))

RECURSIVE ParseLines(_, _)
ParseLines(config, lines) ==
    IF lines = <<>> THEN config
    ELSE ParseLines(ParseLine(config, Head(lines)), Tail(lines))

\* the pairs of the file laid over the defaults
LoadConfig_MergesDefaults(file) ==
    IF file.k # "file" THEN DefaultConfig
    ELSE ParseLines(DefaultConfig, file.v)

\* _load_config: the defaults when the file is missing or cannot be read,
\* otherwise exactly the pairs of the file
LoadConfig(file) ==
    IF file.k # "file" THEN DefaultConfig
    ELSE ParseLines(EmptyDict, file.v)

\* ------------------------------------------------------------ Project Analyzer
\* The project tree is a record:
\*   frontend   [dir, packageJson, indexHtml, js]
\*   backend    [dir, requirements, mainPy, py]
\*   compose, dockerfiles, git
\* packageJson holds what json.load returns: [json |-> "object", data |-> d],
\* [json |-> "nonobject"] (a list, a number, ...) or [json |-> "invalid"].
\* A file of js or py holds the port each of the five patterns captures in it,
\* as a function over the indices (1..5, in precedence order) that match.

\* the first of the port_patterns of _detect_port_from_files to match
FirstPattern(m) == CHOOSE i \in DOMAIN m : \A j \in DOMAIN m : i <= j

\* a file that cannot be read ending the scan with the default
RECURSIVE DetectPortFromFiles_StopsAtUnreadable(_, _)
DetectPortFromFiles_StopsAtUnreadable(files, default) ==
    IF files = <<>> THEN default
    ELSE LET f == Head(files)
         IN IF f.k # "file" THEN default
            ELSE IF DOMAIN f.v # {} THEN f.v[FirstPattern(f.v)]
            ELSE DetectPortFromFiles_StopsAtUnreadable(Tail(files), default)

RECURSIVE DetectPortFromFiles(_, _)
DetectPortFromFiles(files, default) ==
    IF files = <<>> THEN default
    ELSE LET f == Head(files)
         IN IF f.k = "file" /\ DOMAIN f.v # {}
            THEN f.v[FirstPattern(f.v)]
            ELSE DetectPortFromFiles(Tail(files), default)

DefaultFrontendPort == 3000
DefaultBackendPort == 8000

NodeCommands ==
    [test_command |-> "npm test", build_command |-> "npm run build",
     lint_command |-> "npm run lint", install_command |-> "npm install"]

VanillaCommands ==
    [test_command |-> "echo no tests", build_command |-> "echo no build",
     lint_command |-> "echo no lint", install_command |-> "echo no install"]

\* the keys the package.json branch of _analyze_frontend sets before an
\* exception, if any, leaves the try block
PackageFacet(pkg) ==
    IF pkg.k = "file" /\ pkg.v.json = "object"
    THEN [framework |-> "node",
          dependencies |-> Get(pkg.v.data, "dependencies", EmptyDict),
          scripts |-> Get(pkg.v.data, "scripts", EmptyDict)] @@ NodeCommands
    ELSE IF pkg.k = "file" /\ pkg.v.json = "nonobject"
    THEN [framework |-> "node"]
    ELSE EmptyDict

AnalyzeFrontend(fe) ==
    IF ~fe.dir THEN [exists |-> FALSE]
    ELSE [exists |-> TRUE, path |-> "frontend"]
         @@ (IF Exists(fe.packageJson) THEN PackageFacet(fe.packageJson)
             ELSE IF fe.indexHtml
             THEN [framework |-> "vanilla-js", dependencies |-> EmptyDict]
                  @@ VanillaCommands
             ELSE EmptyDict)
         @@ [port |-> DetectPortFromFiles(fe.js, DefaultFrontendPort)]

S_fastapi == <<"f", "a", "s", "t", "a", "p", "i">>
S_flask == <<"f", "l", "a", "s", "k">>
S_django == <<"d", "j", "a", "n", "g", "o">>

\* sub in s
Contains(s, sub) ==
    \E i \in 1..(Len(s) - Len(sub) + 1) : SubSeq(s, i, i + Len(sub) - 1) = sub

\* the flask marker tried before the fastapi one
DetectPythonFramework_FlaskFirst(mainPy) ==
    IF ~Exists(mainPy) THEN "unknown"
    ELSE IF Contains(Lower(mainPy.v), S_flask) THEN "flask"
    ELSE IF Contains(Lower(mainPy.v), S_fastapi) THEN "fastapi"
    ELSE IF Contains(Lower(mainPy.v), S_django) THEN "django"
    ELSE "unknown"

DetectPythonFramework(mainPy) ==
    IF ~Exists(mainPy) THEN "unknown"
    ELSE IF Contains(Lower(mainPy.v), S_fastapi) THEN "fastapi"
    ELSE IF Contains(Lower(mainPy.v), S_flask) THEN "flask"
    ELSE IF Contains(Lower(mainPy.v), S_django) THEN "django"
    ELSE "unknown"

RECURSIVE DropEmpty(_)
DropEmpty(l) ==
    IF l = <<>> THEN <<>>
    ELSE IF Head(l) = <<>> THEN DropEmpty(Tail(l))
    ELSE <<Head(l)>> \o DropEmpty(Tail(l))

\* f.read().strip().split('\n'), each stripped, empties dropped
Requirements(text) ==
    LET lines == Split(Strip(text), "\n")
    IN DropEmpty([i \in DOMAIN lines |-> Strip(lines[i])])

\* open() of requirements.txt or read_text() of main.py raising leaves
\* _analyze_backend by the exception
BackendRaises(be) ==
    /\ be.dir
    /\ Exists(be.requirements) \/ Exists(be.mainPy)
    /\ be.requirements.k = "unreadable" \/ be.mainPy.k = "unreadable"

AnalyzeBackend(be) ==
    IF ~be.dir THEN [exists |-> FALSE]
    ELSE [exists |-> TRUE, path |-> "backend"]
         @@ (IF Exists(be.requirements) \/ Exists(be.mainPy)
             THEN [language |-> "python",
                   framework |-> DetectPythonFramework(be.mainPy),
                   test_command |-> "pytest", lint_command |-> "flake8",
                   install_command |-> "pip install -r requirements.txt",
                   port |-> DetectPortFromFiles(be.py, DefaultBackendPort)]
                  @@ (IF Exists(be.requirements)
                      THEN [dependencies |-> Requirements(be.requirements.v)]
                      ELSE EmptyDict)
             ELSE EmptyDict)

TfNames == {"terraform/main.tf", "terraform/variables.tf", "terraform/outputs.tf"}

\* the path lies under terraform/
IsTerraformPath(p) ==
    p \in TfNames \cup {"terraform", "terraform/user_data.sh",
                        "terraform/terraform.tfvars",
                        "terraform/terraform.tfvars.example"}

AnalyzeInfrastructure(files) ==
    [terraform_exists |-> Exists(files["terraform"]),
     terraform_path |-> "terraform"]
    @@ (IF Exists(files["terraform"])
        THEN [terraform_files |-> {n \in TfNames : Exists(files[n])}]
        ELSE EmptyDict)

AnalyzeDocker(t) ==
    [compose_exists |-> t.compose, dockerfiles |-> t.dockerfiles]

\* the two git invocations, each "ok", "exit_nonzero" (stdout is empty) or
\* "exception" (subprocess.run raises, and the except block ends the sub-step)
AnalyzeGit(isRepo, git) ==
    [is_git_repo |-> isRepo]
    @@ (IF isRepo /\ git[1] # "exception"
        THEN [current_branch |-> IF git[1] = "ok" THEN "main" ELSE ""]
             @@ (IF git[2] # "exception"
                 THEN [remote_url |-> IF git[2] = "ok" THEN "origin-url" ELSE ""]
                 ELSE EmptyDict)
        ELSE EmptyDict)

AnalyzeProject(t, files, git) ==
    [frontend |-> AnalyzeFrontend(t.frontend),
     backend |-> AnalyzeBackend(t.backend),
     infrastructure |-> AnalyzeInfrastructure(files),
     docker |-> AnalyzeDocker(t),
     git |-> AnalyzeGit(t.git, git)]

\* ---------------------------------------------------------- Advisory Enrichment
None == [t |-> "none"]

\* bool(x) for a token: None and '' are falsy
Truthy(x) == x.t = "str" /\ x.v # <<>>

\* the token kept as given, without strip()
StoredToken_Unstripped(token) == IF Truthy(token) THEN token ELSE None

\* PipelineGenerator.__init__: the stripped token, or None
StoredToken(token) == IF Truthy(token) THEN PyStr(Strip(token.v)) ELSE None

\* What requests.post does: [kind |-> "exception", why |-> w] when it raises
\* (a timeout, a refused connection), otherwise [kind |-> "http", status |-> n,
\* body |-> b] with b = [ok |-> FALSE] when response.json() raises or the
\* choices/message/content path is missing, and b = [ok |-> TRUE, content |-> c]
\* otherwise; c = [json, truthy, text] says whether json.loads decodes the
\* content and whether the decoded value is truthy.
HttpOk == 200

\* _call_openai_api: [raised, value]
CallOpenaiApi(resp, fail_on_error) ==
    IF resp.kind = "http" /\ resp.status = HttpOk /\ resp.body.ok
    THEN [raised |-> FALSE,
          value |-> IF resp.body.content.json
                    THEN [t |-> "json", truthy |-> resp.body.content.truthy,
                          text |-> resp.body.content.text]
                    ELSE [t |-> "freeform", truthy |-> TRUE,
                          text |-> resp.body.content.text]]
    ELSE [raised |-> fail_on_error, value |-> None]

\* the except block taking the graceful path whatever fail_on_ai_error is
AiEnhanceAnalysis_Swallows(analysis, openai_token, fail_on_ai_error, resp) ==
    IF ~Truthy(openai_token)
    THEN [raised |-> fail_on_ai_error, analysis |-> analysis, calls |-> 0]
    ELSE LET r == CallOpenaiApi(resp, fail_on_ai_error)
             attach == ~r.raised /\ r.value.t # "none" /\ r.value.truthy
         IN [raised |-> FALSE,
             analysis |-> IF attach
                          THEN [ai_recommendations |-> r.value] @@ analysis
                          ELSE analysis,
             calls |-> 1]

\* a failed request sent a second time
AiEnhanceAnalysis_Retries(analysis, openai_token, fail_on_ai_error, resp) ==
    IF ~Truthy(openai_token)
    THEN [raised |-> fail_on_ai_error, analysis |-> analysis, calls |-> 0]
    ELSE LET r == CallOpenaiApi(resp, fail_on_ai_error)
             attach == ~r.raised /\ r.value.t # "none" /\ r.value.truthy
             failed == r.raised \/ (~attach /\ fail_on_ai_error)
         IN [raised |-> failed /\ fail_on_ai_error,
             analysis |-> IF attach
                          THEN [ai_recommendations |-> r.value] @@ analysis
                          ELSE analysis,
             calls |-> IF r.value.t = "none" THEN 2 ELSE 1]

\* every reply that is not None attached, a falsy one included
AiEnhanceAnalysis_AttachesFalsy(analysis, openai_token, fail_on_ai_error, resp) ==
    IF ~Truthy(openai_token)
    THEN [raised |-> fail_on_ai_error, analysis |-> analysis, calls |-> 0]
    ELSE LET r == CallOpenaiApi(resp, fail_on_ai_error)
             attach == ~r.raised /\ r.value.t # "none"
             failed == r.raised \/ (~attach /\ fail_on_ai_error)
         IN [raised |-> failed /\ fail_on_ai_error,
             analysis |-> IF attach
                          THEN [ai_recommendations |-> r.value] @@ analysis
                          ELSE analysis,
             calls |-> 1]

\* _ai_enhance_analysis: [raised, analysis, calls], calls the number of
\* requests sent
AiEnhanceAnalysis(analysis, openai_token, fail_on_ai_error, resp) ==
    IF ~Truthy(openai_token)
    THEN [raised |-> fail_on_ai_error, analysis |-> analysis, calls |-> 0]
    ELSE LET r == CallOpenaiApi(resp, fail_on_ai_error)
             attach == ~r.raised /\ r.value.t # "none" /\ r.value.truthy
             failed == r.raised \/ (~attach /\ fail_on_ai_error)
         IN [raised |-> failed /\ fail_on_ai_error,
             analysis |-> IF attach
                          THEN [ai_recommendations |-> r.value] @@ analysis
                          ELSE analysis,
             calls |-> 1]

\* ----------------------------------------------------------- Artifact Generator
\* A step returns [raised, writes]: writes is the sequence of <<path, content>>
\* it wrote before it returned or raised. bad names the path whose write the
\* filesystem refuses in this run ("none" when it refuses none).

RECURSIVE WritesBefore(_, _)
WritesBefore(pairs, bad) ==
    IF pairs = <<>> \/ Head(pairs)[1] = bad THEN <<>>
    ELSE <<Head(pairs)>> \o WritesBefore(Tail(pairs), bad)

WriteOut(pairs, bad) ==
    [raised |-> \E i \in DOMAIN pairs : pairs[i][1] = bad,
     writes |-> WritesBefore(pairs, bad)]

Raise == [raised |-> TRUE, writes |-> <<>>]

Step(name, coe) == [name |-> name, coe |-> coe]

\* the terraform steps appended whatever the analysis found
CreateValidationJob_AlwaysTerraform(analysis) ==
    <<Step("Checkout code", FALSE), Step("Validate YAML files", FALSE),
      Step("Setup Terraform", FALSE), Step("Terraform Format Check", TRUE),
      Step("Terraform Validate", FALSE)>>

\* _create_validation_job
CreateValidationJob(analysis) ==
    <<Step("Checkout code", FALSE), Step("Validate YAML files", FALSE)>>
    \o (IF analysis.infrastructure.terraform_exists
        THEN <<Step("Setup Terraform", FALSE),
               Step("Terraform Format Check", TRUE),
               Step("Terraform Validate", FALSE)>>
        ELSE <<>>)

BackendSteps ==
    <<Step("Set up Python", FALSE), Step("Install backend dependencies", FALSE),
      Step("Lint backend code", TRUE), Step("Test backend code", TRUE)>>

FrontendSteps ==
    <<Step("Set up Node.js", FALSE), Step("Install frontend dependencies", FALSE),
      Step("Lint frontend code", TRUE), Step("Test frontend code", TRUE)>>

Commands == {"install_command", "lint_command", "test_command"}

WantsBackendSteps(analysis) ==
    /\ analysis.backend.exists
    /\ "language" \in DOMAIN analysis.backend
    /\ analysis.backend.language = "python"

WantsFrontendSteps(analysis) ==
    /\ analysis.frontend.exists
    /\ "framework" \in DOMAIN analysis.frontend
    /\ analysis.frontend.framework = "node"

\* the frontend steps appended for every frontend that exists, whatever its
\* framework
CreateTestJob_AnyFrontend(analysis) ==
    [raised |-> FALSE,
     steps |-> <<Step("Checkout code", FALSE)>>
               \o (IF WantsBackendSteps(analysis) THEN BackendSteps ELSE <<>>)
               \o (IF analysis.frontend.exists THEN FrontendSteps ELSE <<>>)]

\* _create_test_job: [raised, steps]; reading a command the facet does not
\* hold raises KeyError
CreateTestJob(analysis) ==
    IF \/ WantsBackendSteps(analysis) /\ ~(Commands \subseteq DOMAIN analysis.backend)
       \/ WantsFrontendSteps(analysis) /\ ~(Commands \subseteq DOMAIN analysis.frontend)
    THEN [raised |-> TRUE, steps |-> <<>>]
    ELSE [raised |-> FALSE,
          steps |-> <<Step("Checkout code", FALSE)>>
                    \o (IF WantsBackendSteps(analysis) THEN BackendSteps ELSE <<>>)
                    \o (IF WantsFrontendSteps(analysis) THEN FrontendSteps
                        ELSE IF analysis.frontend.exists
                        THEN <<Step("Validate frontend files", FALSE)>>
                        ELSE <<>>)]

DeploySteps ==
    <<Step("Checkout code", FALSE), Step("Setup Terraform", FALSE),
      Step("Terraform Init", FALSE), Step("Terraform Plan", FALSE),
      Step("Terraform Apply", FALSE), Step("Get deployment info", FALSE),
      Step("Wait for application startup", FALSE)>>

NotificationStep == Step("Send deployment notification", FALSE)

\* the condition of the if at the end of _create_deploy_job, for a str value
EmailNotificationOn(v) == Lower(v.v) = S_true

\* _create_deploy_job: [raised, steps]; .lower() of a list raises
\* AttributeError
CreateDeployJob(config) ==
    LET v == Get(config, K_email_notification, PyStr(S_false))
    IN IF v.t # "str" THEN [raised |-> TRUE, steps |-> <<>>]
       ELSE [raised |-> FALSE,
             steps |-> DeploySteps
                       \o (IF EmailNotificationOn(v) THEN <<NotificationStep>>
                           ELSE <<>>)]

\* _generate_github_workflow
GenerateGithubWorkflow(config, analysis, bad) ==
    LET test == CreateTestJob(analysis)
        deploy == CreateDeployJob(config)
    IN IF test.raised \/ deploy.raised THEN Raise
       ELSE WriteOut(<< <<"ci-cd.yml",
                          File([name |-> Format(Get(config, K_pipeline_name,
                                                    PyStr(S_AI_Generated_Pipeline))),
                                validate |-> CreateValidationJob(analysis),
                                test |-> test.steps,
                                deploy |-> deploy.steps])>> >>, bad)

\* _generate_ai_workflow_trigger; now stands for datetime.now()
GenerateAiWorkflowTrigger(now, bad) ==
    WriteOut(<< <<"ai-generate-workflow.yml", File([branch |-> now])>> >>, bad)

\* lines 904-913 of _create_terraform_main: the two ports it resolves (and
\* then writes into neither main.tf nor user_data.sh)
TerraformMainPorts(config, analysis) ==
    LET b == Get(config, K_backend_port,
                 PyInt(Get(analysis.backend, "port", DefaultBackendPort)))
        f == Get(config, K_frontend_port,
                 PyInt(Get(analysis.frontend, "port", DefaultFrontendPort)))
        isInt(x) == x.t = "int" \/ (x.t = "str" /\ IsIntStr(x.v))
        int(x) == IF x.t = "int" THEN x.v ELSE IntOf(x.v)
    IN IF isInt(b) /\ isInt(f)
       THEN [backend_port |-> int(b), frontend_port |-> int(f)]
       ELSE [backend_port |-> DefaultBackendPort,
             frontend_port |-> DefaultFrontendPort]

\* main.tf and user_data.sh hold no value of the config or the analysis
MainTf == File([generated |-> "main.tf"])
UserDataSh == File([generated |-> "user_data.sh"])
OutputsTf == File([generated |-> "outputs.tf"])

\* .replace() of a pipeline_name or .lower() of an ami that is a list raises
\* AttributeError, in _create_terraform_variables before it writes
VariablesRaise(config) ==
    \/ Get(config, K_pipeline_name, PyStr(S_qr_generator)).t # "str"
    \/ Get(config, K_ami, PyStr(S_latest_ubuntu)).t # "str"

\* the instance_type of _create_terraform_variables and _create_terraform_tfvars
InstanceType(config) == Get(config, K_instance_type, PyStr(S_t3_micro))

\* the values _create_terraform_variables substitutes into variables.tf
VariablesTf(config) ==
    File([environment |-> Format(Get(config, K_environment, PyStr(S_dev))),
          instance_type |-> Format(InstanceType(config)),
          frontend_port |-> Format(Get(config, K_frontend_port,
                                       PyInt(DefaultFrontendPort))),
          backend_port |-> Format(Get(config, K_backend_port,
                                      PyInt(DefaultBackendPort))),
          deploy_method |-> Format(Get(config, K_deploy_using,
                                       PyStr(S_docker_compose))),
          target_platform |-> Format(Get(config, K_target, PyStr(S_aws_ec2)))])

\* the values _create_terraform_tfvars substitutes into terraform.tfvars
\* (example: the copy written as terraform.tfvars.example)
Tfvars(config, example) ==
    File([environment |-> Format(Get(config, K_environment, PyStr(S_dev))),
          instance_type |-> Format(InstanceType(config)),
          frontend_port |-> Format(Get(config, K_frontend_port, PyStr(S_3000))),
          backend_port |-> Format(Get(config, K_backend_port, PyStr(S_8000))),
          deploy_method |-> Format(Get(config, K_deploy_using,
                                       PyStr(S_docker_compose))),
          target_platform |-> Format(Get(config, K_target, PyStr(S_aws_ec2))),
          example |-> example])

TerraformBundle(config) ==
    << <<"terraform", File([generated |-> "dir"])>>,
       <<"terraform/main.tf", MainTf>>,
       <<"terraform/user_data.sh", UserDataSh>> >>
    \o (IF VariablesRaise(config) THEN <<>>
        ELSE << <<"terraform/variables.tf", VariablesTf(config)>>,
                <<"terraform/outputs.tf", OutputsTf>>,
                <<"terraform/terraform.tfvars", Tfvars(config, FALSE)>>,
                <<"terraform/terraform.tfvars.example", Tfvars(config, TRUE)>> >>)

\* the existence test extended to the fourth file of the bundle
TerraformComplete_WithTfvars(files) ==
    \A n \in TfNames \cup {"terraform/terraform.tfvars"} : Exists(files[n])

\* the existence test at the head of _ensure_terraform_infrastructure
TerraformComplete(files) == \A n \in TfNames : Exists(files[n])

\* only the files of the bundle that do not exist yet are written
EnsureTerraformInfrastructure_OnlyMissing(config, analysis, files, bad) ==
    IF TerraformComplete(files) THEN [raised |-> FALSE, writes |-> <<>>]
    ELSE LET missing == SelectSeq(TerraformBundle(config),
                                  LAMBDA w : ~Exists(files[w[1]]))
             w == WriteOut(missing, bad)
         IN [raised |-> w.raised \/ VariablesRaise(config), writes |-> w.writes]

\* _ensure_terraform_infrastructure
EnsureTerraformInfrastructure(config, analysis, files, bad) ==
    IF TerraformComplete(files) THEN [raised |-> FALSE, writes |-> <<>>]
    ELSE LET w == WriteOut(TerraformBundle(config), bad)
         IN [raised |-> w.raised \/ VariablesRaise(config), writes |-> w.writes]

\* _ensure_docker_configuration only prints
EnsureDockerConfiguration(analysis) ==
    [raised |-> ~({"compose_exists", "dockerfiles"} \subseteq DOMAIN analysis.docker),
     writes |-> <<>>]

\* _get_current_version, for a VERSION that can be read
GetCurrentVersion(version) ==
    IF Exists(version) THEN Strip(version.v) ELSE S_0_1_0

\* parts[1], the minor component, taken for the patch
NewVersion_BumpsMinor(current_version) ==
    LET parts == Split(current_version, ".")
    IN IF Len(parts) >= 3 /\ IsIntStr(parts[2])
       THEN Join3(parts[1], IntToStr(IntOf(parts[2]) + 1), parts[3], ".")
       ELSE S_0_1_1

\* the try block of _increment_version: parts[2] missing raises IndexError,
\* int() of a non-integer raises ValueError, and either gives '0.1.1'
NewVersion(current_version) ==
    LET parts == Split(current_version, ".")
    IN IF Len(parts) >= 3 /\ IsIntStr(parts[3])
       THEN Join3(parts[1], parts[2], IntToStr(IntOf(parts[3]) + 1), ".")
       ELSE S_0_1_1

\* README.md quoting the advisory annotation of the record
ReadmeContent_WithAdvice(analysis, version, now) ==
    File([frontend_framework |-> Get(analysis.frontend, "framework", "Unknown"),
          backend_framework |-> Get(analysis.backend, "framework", "Unknown"),
          advice |-> Get(analysis, "ai_recommendations", None),
          updated |-> now,
          version |-> version])

\* the values _update_readme substitutes into README.md
ReadmeContent(analysis, version, now) ==
    File([frontend_framework |-> Get(analysis.frontend, "framework", "Unknown"),
          frontend_port |-> IF "port" \in DOMAIN analysis.frontend
                            THEN IntToStr(analysis.frontend.port)
                            ELSE <<"N", "/", "A">>,
          backend_framework |-> Get(analysis.backend, "framework", "Unknown"),
          backend_port |-> IF "port" \in DOMAIN analysis.backend
                           THEN IntToStr(analysis.backend.port)
                           ELSE <<"N", "/", "A">>,
          updated |-> now,
          version |-> version])

\* the version bump done inside the documentation step, before README.md is
\* written
UpdateReadme_BumpsVersion(analysis, files, now, bad) ==
    IF files["VERSION"].k = "unreadable" THEN Raise
    ELSE WriteOut(<< <<"VERSION", File(S_0_1_1)>>,
                     <<"README.md",
                       ReadmeContent(analysis, S_0_1_1, now)>> >>, bad)

\* README.md quoting the version the bump is about to write
UpdateReadme_QuotesNextVersion(analysis, files, now, bad) ==
    IF files["VERSION"].k = "unreadable" THEN Raise
    ELSE WriteOut(<< <<"README.md",
                       ReadmeContent(analysis,
                                     NewVersion(GetCurrentVersion(files["VERSION"])),
                                     now)>> >>, bad)

\* _update_readme; reading a VERSION that cannot be read raises
UpdateReadme(analysis, files, now, bad) ==
    IF files["VERSION"].k = "unreadable" THEN Raise
    ELSE WriteOut(<< <<"README.md",
                       ReadmeContent(analysis,
                                     GetCurrentVersion(files["VERSION"]),
                                     now)>> >>, bad)

\* _increment_version
IncrementVersion(files, bad) ==
    IF files["VERSION"].k = "unreadable" THEN Raise
    ELSE WriteOut(<< <<"VERSION",
                       File(NewVersion(GetCurrentVersion(files["VERSION"])))>> >>,
                  bad)

\* ------------------------------------------------------------------ QR service
\* backend/main.py: the /generate endpoint. A request is [data, data_type],
\* data a str and data_type one of the names below or any other name; a
\* response is [status, media_type].
Letters == {UpperLetters[i] : i \in 1..26} \cup {LowerLetters[i] : i \in 1..26}

DigitChars == {Digits[i] : i \in 1..10}

\* \s
Whitespace == {" ", "\t", "\n", "\r"}

AllIn(s, chars) == \A i \in DOMAIN s : s[i] \in chars

\* str.upper, character by character
UpperChar(c) ==
    IF \E i \in 1..26 : LowerLetters[i] = c
    THEN UpperLetters[CHOOSE i \in 1..26 : LowerLetters[i] = c]
    ELSE c

Upper(s) == [i \in DOMAIN s |-> UpperChar(s[i])]

StartsWith(s, p) == Len(s) >= Len(p) /\ SubSeq(s, 1, Len(p)) = p

\* $ matches at the end of s and before its final newline
DropFinalNewline(s) ==
    IF s # <<>> /\ s[Len(s)] = "\n" THEN SubSeq(s, 1, Len(s) - 1) ELSE s

\* [a-zA-Z0-9._%+-]+@[a-zA-Z0-9.-]+\.[a-zA-Z]{2,}
EmailBody(s) ==
    \E i, j \in DOMAIN s :
        /\ 1 < i /\ i + 1 < j /\ j + 2 <= Len(s)
        /\ s[i] = "@"
        /\ AllIn(SubSeq(s, 1, i - 1), Letters \cup DigitChars \cup {".", "_", "%", "+", "-"})
        /\ AllIn(SubSeq(s, i + 1, j - 1), Letters \cup DigitChars \cup {".", "-"})
        /\ s[j] = "."
        /\ AllIn(SubSeq(s, j + 1, Len(s)), Letters)

\* what follows the scheme: [^\s/$.?#].[^\s]*
UrlRest(r) ==
    /\ Len(r) >= 2
    /\ r[1] \notin Whitespace \cup {"/", "$", ".", "?", "#"}
    /\ r[2] # "\n"
    /\ \A k \in 3..Len(r) : r[k] \notin Whitespace

S_http == <<"h", "t", "t", "p", ":", "/", "/">>
S_https == <<"h", "t", "t", "p", "s", ":", "/", "/">>

\* https?://[^\s/$.?#].[^\s]*
UrlBody(s) ==
    \/ StartsWith(s, S_http) /\ UrlRest(SubSeq(s, Len(S_http) + 1, Len(s)))
    \/ StartsWith(s, S_https) /\ UrlRest(SubSeq(s, Len(S_https) + 1, Len(s)))

\* re.sub(r'[^\d+]', '', data)
PhoneChars(data) == SelectSeq(data, LAMBDA c : c \in DigitChars \cup {"+"})

MinPhoneLen == 7

S_WPA == <<"W", "P", "A">>
S_WEP == <<"W", "E", "P">>
S_NOPASS == <<"N", "O", "P", "A", "S", "S">>

\* the wifi branch of format_data_for_qr, for two parts or more
WifiText(parts) ==
    LET given == IF Len(parts) > 2 THEN Upper(Strip(parts[3])) ELSE S_WPA
        security == IF given \in {S_WPA, S_WEP, S_NOPASS} THEN given ELSE S_WPA
    IN <<"W", "I", "F", "I", ":", "T", ":">> \o security \o <<";", "S", ":">>
       \o Strip(parts[1]) \o <<";", "P", ":">> \o Strip(parts[2]) \o <<";", ";">>

Rejected == [raised |-> TRUE, data |-> <<>>]

Formatted(text) == [raised |-> FALSE, data |-> text]

\* format_data_for_qr: [raised, data], raised for the HTTPException of
\* status 400
FormatDataForQr(data, data_type) ==
    IF data_type = "email"
    THEN IF EmailBody(data) \/ EmailBody(DropFinalNewline(data))
         THEN Formatted(<<"m", "a", "i", "l", "t", "o", ":">> \o data)
         ELSE Rejected
    ELSE IF data_type = "phone"
    THEN IF Len(PhoneChars(data)) < MinPhoneLen THEN Rejected
         ELSE Formatted(<<"t", "e", "l", ":">> \o PhoneChars(data))
    ELSE IF data_type = "url"
    THEN LET url == IF StartsWith(data, S_http) \/ StartsWith(data, S_https)
                    THEN data ELSE S_https \o data
         IN IF UrlBody(url) \/ UrlBody(DropFinalNewline(url)) THEN Formatted(url) ELSE Rejected
    ELSE IF data_type = "wifi"
    THEN IF Len(Split(data, ",")) < 2 THEN Rejected
         ELSE Formatted(WifiText(Split(data, ",")))
    ELSE Formatted(data)

BadRequest == 400
ServerError == 500
Ok == 200

Response(status, media_type) == [status |-> status, media_type |-> media_type]

NoResponse == Response(0, "")

\* no request to the service
NoRequest == [data |-> <<>>, data_type |-> ""]

\* ------------------------------------------------------------------ the state
VARIABLES
    configFile,  \* pipeline_request.txt: Absent, Unreadable or File(lines)
    token,       \* the openai_token argument of the constructor: None or a str
    tree,        \* the project tree the analyzer reads
    env,         \* what the outside does: [faultFile, faultRun, net, git]
    files,       \* the paths the generator writes, each Absent or a file
    gen,         \* the PipelineGenerator: [config, openai_token, ai_mode_requested]
    pc,          \* where the run is
    analysis,    \* the analysis record of the run
    call,        \* the arguments of the run's _ai_enhance_analysis call
    result,      \* "none", "true", "false" (generate_pipeline's return value)
                 \* or "raised" (an exception left the run)
    ran,         \* the generation steps the run has entered, in order, each
                 \* [name, raised]
    written,     \* the <<path, content>> the run has written, in order
    netCalls,    \* the requests the run has sent to the advisory service
    runs,        \* the runs started so far
    pre,         \* files as the run found them
    start,       \* files as the first run found them
    history,     \* the results of the runs that have ended, in order
    args,        \* the command line of main: [analyze_only, auto_commit, verbose]
    exit_status, \* "running", or the exit status of main: "exit0", "exit1"
    committed,   \* main has run git add and git commit
    request,     \* the body of the POST to /generate
    response     \* the response of /generate, NoResponse before it

vars == <<configFile, token, tree, env, files, gen, pc, analysis, call, result,
          ran, written, netCalls, runs, pre, start, history, args, exit_status,
          committed, request, response>>

\* the QR service, which the generator never touches
api == <<request, response>>

inputs == <<configFile, token, tree, env, start, args>>

\* what main has done once the generator has returned
outcome == <<exit_status, committed>>

Paths ==
    {"ci-cd.yml", "ai-generate-workflow.yml", "terraform", "terraform/main.tf",
     "terraform/user_data.sh", "terraform/variables.tf", "terraform/outputs.tf",
     "terraform/terraform.tfvars", "terraform/terraform.tfvars.example",
     "README.md", "VERSION"}

\* the path whose write fails in the current run
Bad == IF env.faultRun = runs THEN env.faultFile ELSE "none"

SomeRaised(log) == \E i \in DOMAIN log : log[i].raised

RECURSIVE Apply(_, _)
Apply(fs, writes) ==
    IF writes = <<>> THEN fs
    ELSE Apply([fs EXCEPT ![Head(writes)[1]] = Head(writes)[2]], Tail(writes))

\* PipelineGenerator.__init__, at the start of a run
Construct ==
    /\ pc \in {"idle", "done"}
    /\ runs < MaxRuns
    /\ gen' = [config |-> LoadConfig(configFile),
               openai_token |-> StoredToken(token),
               ai_mode_requested |-> Truthy(StoredToken(token))]
    /\ runs' = runs + 1
    /\ pc' = "analyze"
    /\ analysis' = EmptyDict
    /\ call' = EmptyDict
    /\ result' = "none"
    /\ ran' = <<>>
    /\ written' = <<>>
    /\ netCalls' = 0
    /\ pre' = files
    /\ history' = IF pc = "done" THEN Append(history, result) ELSE history
    /\ exit_status' = "running"
    /\ committed' = FALSE
    /\ UNCHANGED <<api, inputs, files>>

\* an analysis that leaves a terraform directory behind
Analyze_CreatesTerraform ==
    /\ pc = "analyze"
    /\ pc' = "enhance"
    /\ analysis' = AnalyzeProject(tree, files, env.git)
    /\ files' = [files EXCEPT !["terraform"] = File([generated |-> "analysis"])]
    /\ UNCHANGED <<api, inputs, gen, call, result, ran, written, netCalls, runs, pre,
                   history, outcome>>

\* analyze_project, the first statement of generate_pipeline
Analyze ==
    /\ pc = "analyze"
    /\ IF BackendRaises(tree.backend)
       THEN /\ pc' = "done"
            /\ result' = "raised"
            /\ UNCHANGED analysis
       ELSE /\ pc' = "enhance"
            /\ analysis' = AnalyzeProject(tree, files, env.git)
            /\ UNCHANGED result
    /\ UNCHANGED <<api, inputs, files, gen, call, ran, written, netCalls, runs, pre,
                   history, outcome>>

\* generation following enrichment whatever the command line
Enhance_AlwaysGenerates ==
    /\ pc = "enhance"
    /\ LET r == AiEnhanceAnalysis(analysis, gen.openai_token,
                                  gen.ai_mode_requested, env.net)
       IN /\ call' = [fail_on_ai_error |-> gen.ai_mode_requested]
          /\ netCalls' = netCalls + r.calls
          /\ analysis' = r.analysis
          /\ pc' = IF r.raised THEN "done" ELSE "workflow"
          /\ result' = IF r.raised THEN "raised" ELSE result
    /\ UNCHANGED <<api, inputs, files, gen, ran, written, runs, pre, history, outcome>>

\* enrichment called without fail_on_ai_error, whatever the credential
Enhance_Opportunistic ==
    /\ pc = "enhance"
    /\ LET r == AiEnhanceAnalysis(analysis, gen.openai_token, FALSE, env.net)
       IN /\ call' = [fail_on_ai_error |-> FALSE]
          /\ netCalls' = netCalls + r.calls
          /\ analysis' = r.analysis
          /\ pc' = IF r.raised THEN "done"
                   ELSE IF args.analyze_only THEN "report" ELSE "workflow"
          /\ result' = IF r.raised THEN "raised" ELSE result
    /\ UNCHANGED <<api, inputs, files, gen, ran, written, runs, pre, history, outcome>>

\* enrichment inside the try block of generate_pipeline: its exception becomes
\* the return value False
Enhance_InsideTry ==
    /\ pc = "enhance"
    /\ LET r == AiEnhanceAnalysis(analysis, gen.openai_token,
                                  gen.ai_mode_requested, env.net)
       IN /\ call' = [fail_on_ai_error |-> gen.ai_mode_requested]
          /\ netCalls' = netCalls + r.calls
          /\ analysis' = r.analysis
          /\ pc' = IF r.raised THEN "done"
                   ELSE IF args.analyze_only THEN "report" ELSE "workflow"
          /\ result' = IF r.raised THEN "false" ELSE result
    /\ UNCHANGED <<api, inputs, files, gen, ran, written, runs, pre, history, outcome>>

\* _ai_enhance_analysis as generate_pipeline and the analyze-only branch of
\* main call it; its exception is outside the try block of generate_pipeline
\* and leaves it
Enhance ==
    /\ pc = "enhance"
    /\ LET r == AiEnhanceAnalysis(analysis, gen.openai_token,
                                  gen.ai_mode_requested, env.net)
       IN /\ call' = [fail_on_ai_error |-> gen.ai_mode_requested]
          /\ netCalls' = netCalls + r.calls
          /\ analysis' = r.analysis
          /\ pc' = IF r.raised THEN "done"
                   ELSE IF args.analyze_only THEN "report" ELSE "workflow"
          /\ result' = IF r.raised THEN "raised" ELSE result
    /\ UNCHANGED <<api, inputs, files, gen, ran, written, runs, pre, history, outcome>>

\* each step's exception caught on its own, the next step still run
Generated_Continues(name, r, next) ==
    /\ files' = Apply(files, r.writes)
    /\ written' = written \o r.writes
    /\ ran' = Append(ran, [name |-> name, raised |-> r.raised])
    /\ pc' = next
    /\ result' = IF r.raised \/ SomeRaised(ran) THEN "false"
                 ELSE IF next = "done" THEN "true" ELSE result
    /\ UNCHANGED <<api, inputs, gen, analysis, call, netCalls, runs, pre, history,
                   outcome>>

\* one statement of the try block of generate_pipeline: step name has done r;
\* an exception ends the block with success = False
Generated(name, r, next) ==
    /\ files' = Apply(files, r.writes)
    /\ written' = written \o r.writes
    /\ ran' = Append(ran, [name |-> name, raised |-> r.raised])
    /\ pc' = IF r.raised THEN "done" ELSE next
    /\ result' = IF r.raised THEN "false"
                 ELSE IF next = "done" THEN "true" ELSE result
    /\ UNCHANGED <<api, inputs, gen, analysis, call, netCalls, runs, pre, history,
                   outcome>>

GenerateWorkflow ==
    /\ pc = "workflow"
    /\ Generated("workflow", GenerateGithubWorkflow(gen.config, analysis, Bad),
                 "trigger")

GenerateTrigger ==
    /\ pc = "trigger"
    /\ Generated("trigger", GenerateAiWorkflowTrigger(runs, Bad), "terraform")

EnsureTerraform ==
    /\ pc = "terraform"
    /\ Generated("terraform",
                 EnsureTerraformInfrastructure(gen.config, analysis, files, Bad),
                 "docker")

EnsureDocker ==
    /\ pc = "docker"
    /\ Generated("docker", EnsureDockerConfiguration(analysis), "readme")

Readme ==
    /\ pc = "readme"
    /\ Generated("readme", UpdateReadme(analysis, files, runs, Bad), "version")

BumpVersion ==
    /\ pc = "version"
    /\ Generated("version", IncrementVersion(files, Bad), "done")

\* analyze_project called once more, on the tree as it is
AnalyzeAgain ==
    /\ pc = "enhance"
    /\ analysis' = AnalyzeProject(tree, files, env.git)
    /\ UNCHANGED <<api, inputs, files, gen, pc, call, result, ran, written, netCalls,
                   runs, pre, history, outcome>>

\* _ai_enhance_analysis called on its own, with either value of
\* fail_on_ai_error
EnhanceDirect ==
    /\ pc = "enhance"
    /\ \E fail \in BOOLEAN :
          LET r == AiEnhanceAnalysis(analysis, gen.openai_token, fail, env.net)
          IN /\ call' = [fail_on_ai_error |-> fail]
             /\ netCalls' = netCalls + r.calls
             /\ analysis' = r.analysis
             /\ pc' = "done"
             /\ result' = IF r.raised THEN "raised" ELSE "returned"
    /\ UNCHANGED <<api, inputs, files, gen, ran, written, runs, pre, history, outcome>>

\* the analyze-only branch of main after enrichment: the report is printed,
\* and the raw record too when verbose
Report ==
    /\ pc = "report"
    /\ pc' = "done"
    /\ result' = "returned"
    /\ UNCHANGED <<api, inputs, files, gen, analysis, call, ran, written, netCalls,
                   runs, pre, history, outcome>>

\* main without the sys.exit(1) after a False return
Exit_IgnoresFalse ==
    /\ pc = "done"
    /\ exit_status = "running"
    /\ exit_status' = IF result = "raised" THEN "exit1" ELSE "exit0"
    /\ committed' = (result = "true" /\ args.auto_commit)
    /\ UNCHANGED <<api, inputs, files, gen, pc, analysis, call, result, ran, written,
                   netCalls, runs, pre, history>>

\* the end of main: git add and git commit after a successful generation with
\* --auto-commit, sys.exit(1) after a False return or an exception, else the
\* process ends with status 0
Exit ==
    /\ pc = "done"
    /\ exit_status = "running"
    /\ exit_status' = IF result \in {"true", "returned"} THEN "exit0" ELSE "exit1"
    /\ committed' = (result = "true" /\ args.auto_commit)
    /\ UNCHANGED <<api, inputs, files, gen, pc, analysis, call, result, ran, written,
                   netCalls, runs, pre, history>>

Next ==
    \/ Construct
    \/ Analyze
    \/ Enhance
    \/ GenerateWorkflow
    \/ GenerateTrigger
    \/ EnsureTerraform
    \/ EnsureDocker
    \/ Readme
    \/ BumpVersion
    \/ Exit

\* main with any command line
NextMain == Next \/ Report

\* the pipeline's variables
pipeline ==
    <<inputs, files, gen, pc, analysis, call, result, ran, written, netCalls, runs,
      pre, history, outcome>>

\* generate_qr: the HTTPException of format_data_for_qr is re-raised; else the
\* qrcode library makes the image or raises, which becomes a status 500
GenerateQr ==
    /\ response = NoResponse
    /\ request # NoRequest
    /\ LET f == FormatDataForQr(request.data, request.data_type)
       IN \E made \in BOOLEAN :
             response' = IF f.raised THEN Response(BadRequest, "application/json")
                         ELSE IF made THEN Response(Ok, "image/png")
                         ELSE Response(ServerError, "application/json")
    /\ UNCHANGED <<request, pipeline>>

NextApi == GenerateQr

\* ------------------------------------------------------------------ the inputs
NoFrontend == [dir |-> FALSE, packageJson |-> Absent, indexHtml |-> FALSE, js |-> <<>>]

StaticFrontend ==
    [dir |-> TRUE, packageJson |-> Absent, indexHtml |-> TRUE,
     js |-> <<File(2 :> 5000)>>]

NodeFrontend ==
    [dir |-> TRUE,
     packageJson |-> File([json |-> "object",
                           data |-> ("scripts" :> {"test", "build"})]),
     indexHtml |-> TRUE, js |-> <<>>]

NoBackend == [dir |-> FALSE, requirements |-> Absent, mainPy |-> Absent, py |-> <<>>]

\* "from FastAPI\n" and "flask\n\nqrcode \n"
FastapiBackend ==
    [dir |-> TRUE,
     requirements |-> File(S_fastapi \o <<"\n", "\n">> \o S_flask \o <<" ", "\n">>),
     mainPy |-> File(<<"F", "a", "s", "t", "A", "P", "I">>),
     py |-> <<File(EmptyDict), File((1 :> 9090) @@ (2 :> 8080))>>]

Tree(fe, be) ==
    [frontend |-> fe, backend |-> be, compose |-> TRUE,
     dockerfiles |-> <<"backend/Dockerfile">>, git |-> TRUE]

\* what requests.post can do
Content(json, truthy, text) == [json |-> json, truthy |-> truthy, text |-> text]

Http(status, body) == [kind |-> "http", status |-> status, body |-> body]

NetFailures ==
    {[kind |-> "exception", why |-> "timeout"],
     [kind |-> "exception", why |-> "connection"],
     Http(500, [ok |-> FALSE]),
     Http(401, [ok |-> TRUE, content |-> Content(TRUE, TRUE, "{\"error\": 1}")]),
     Http(HttpOk, [ok |-> FALSE])}

NetReplies ==
    {Http(HttpOk, [ok |-> TRUE, content |-> Content(TRUE, TRUE, "{\"stages\": 3}")]),
     Http(HttpOk, [ok |-> TRUE, content |-> Content(TRUE, FALSE, "{}")]),
     Http(HttpOk, [ok |-> TRUE, content |-> Content(FALSE, FALSE, "use pytest")])}

GitOk == <<"ok", "ok">>

\* the environments: the write of faultFile fails in run faultRun
Envs(FaultFiles, Nets, Gits) ==
    {e \in [faultFile : FaultFiles, faultRun : 1..MaxRuns, net : Nets, git : Gits] :
        e.faultFile = "none" => e.faultRun = 1}

UserFile == File([generated |-> "user"])

\* a tree in which the paths of present exist and VERSION is version
FilesWith(present, version) ==
    [p \in Paths |-> IF p = "VERSION" THEN version
                     ELSE IF p \in present THEN UserFile ELSE Absent]

\* the terraform directory exists whenever a file in it does
TfStates ==
    {{}, {"terraform"}, {"terraform"} \cup TfNames,
     {"terraform", "terraform/main.tf", "terraform/terraform.tfvars"},
     {"terraform", "terraform/user_data.sh"} \cup TfNames}

\* python generate_workflow.py, without --analyze-only and --auto-commit
GenerateArgs == [analyze_only |-> FALSE, auto_commit |-> FALSE, verbose |-> FALSE]

\* the generator before its first run
InitRun(ConfigFiles, Tokens, Trees, EnvSet, FileStates, ArgSet) ==
    /\ args \in ArgSet
    /\ exit_status = "running"
    /\ committed = FALSE
    /\ configFile \in ConfigFiles
    /\ token \in Tokens
    /\ tree \in Trees
    /\ env \in EnvSet
    /\ files \in FileStates
    /\ start = files
    /\ pre = files
    /\ gen = [config |-> EmptyDict, openai_token |-> None,
              ai_mode_requested |-> FALSE]
    /\ pc = "idle"
    /\ analysis = EmptyDict
    /\ call = EmptyDict
    /\ result = "none"
    /\ ran = <<>>
    /\ written = <<>>
    /\ netCalls = 0
    /\ runs = 0
    /\ history = <<>>

InitArgs(ConfigFiles, Tokens, Trees, EnvSet, FileStates, ArgSet) ==
    /\ InitRun(ConfigFiles, Tokens, Trees, EnvSet, FileStates, ArgSet)
    /\ request = NoRequest
    /\ response = NoResponse

InitWith(ConfigFiles, Tokens, Trees, EnvSet, FileStates) ==
    InitArgs(ConfigFiles, Tokens, Trees, EnvSet, FileStates, {GenerateArgs})

\* the line "key: text" of an override file
Line(key, text) == key \o <<":", " ">> \o text

S_t3_small == <<"t", "3", ".", "s", "m", "a", "l", "l">>

\* a file with a comment, a blank line, a line without a colon and one pair
PlainConfig ==
    File(<<<<"#", " ", "k", ":", "v">>, <<" ">>, <<"d", "e", "v">>,
           Line(K_instance_type, S_t3_small)>>)

\* email_notification: [true]
ListEmailConfig == File(<<Line(K_email_notification, <<"[">> \o S_true \o <<"]">>)>>)

\* ami: [a, b]
ListAmiConfig == File(<<Line(K_ami, <<"[", "a", ",", " ", "b", "]">>)>>)

S_1_2_3 == <<"1", ".", "2", ".", "3">>

\* the pipeline on a few trees, with every write that can fail
Init ==
    InitWith({Absent, PlainConfig, ListEmailConfig, ListAmiConfig},
             {None, PyStr(<<"k">>)},
             {Tree(StaticFrontend, FastapiBackend)},
             Envs({"none"} \cup (Paths \ {"terraform"}),
                  {CHOOSE n \in NetFailures : n.kind = "exception",
                   CHOOSE n \in NetReplies : n.body.content.truthy},
                  {GitOk}),
             {FilesWith(tf, v) : tf \in TfStates,
                                 v \in {Absent, File(S_1_2_3 \o <<"\n">>)}})

Spec == Init /\ [][Next]_vars

\* ------------------------------------------------------------ the overrides
S_9090 == <<"9", "0", "9", "0">>
S_5000 == <<"5", "0", "0", "0">>

InstanceLines == {<<>>, <<Line(K_instance_type, S_t3_small)>>}

\* email_notification: true | TRUE | True (with a trailing blank) | false |
\* yes | [true], or no such line
EmailLines ==
    {<<>>,
     <<Line(K_email_notification, S_true)>>,
     <<Line(K_email_notification, <<"T", "R", "U", "E">>)>>,
     <<Line(K_email_notification, <<"T", "r", "u", "e", " ">>)>>,
     <<Line(K_email_notification, S_false)>>,
     <<Line(K_email_notification, <<"y", "e", "s">>)>>,
     <<Line(K_email_notification, <<"[">> \o S_true \o <<"]">>)>>}

BackendPortLines ==
    {<<>>, <<Line(K_backend_port, S_9090)>>, <<Line(K_backend_port, <<"a", "b", "c">>)>>}

FrontendPortLines ==
    {<<>>, <<Line(K_frontend_port, S_5000)>>,
     <<Line(K_frontend_port, <<"[">> \o S_3000 \o <<"]">>)>>}

ConfigFiles ==
    {Absent, Unreadable}
    \cup {File(i \o e \o b \o f) : i \in InstanceLines, e \in EmailLines,
                                   b \in BackendPortLines, f \in FrontendPortLines}

BareBackend == [dir |-> TRUE, requirements |-> Absent, mainPy |-> Absent, py |-> <<>>]

\* the pipeline over the override files, on trees with and without inferred
\* ports, with the terraform bundle present or missing
InitConfig ==
    InitWith(ConfigFiles, {None},
             {Tree(StaticFrontend, FastapiBackend), Tree(NodeFrontend, NoBackend),
              Tree(NoFrontend, BareBackend)},
             Envs({"none"}, {CHOOSE n \in NetFailures : n.kind = "exception"},
                  {GitOk}),
             {FilesWith(tf, Absent) : tf \in {{}, {"terraform"} \cup TfNames}})

SpecConfig == InitConfig /\ [][Next]_vars

\* ------------------------------------------------------------- the enrichment
Tokens == {None, PyStr(<<>>), PyStr(<<" ">>), PyStr(<<"k">>), PyStr(<<" ", "k">>)}

\* _ai_enhance_analysis on an analysis record, for every token, either value
\* of fail_on_ai_error and everything requests.post can do
InitEnrich ==
    InitWith({Absent}, Tokens,
             {Tree(StaticFrontend, FastapiBackend), Tree(NodeFrontend, NoBackend)},
             Envs({"none"}, NetFailures \cup NetReplies, {GitOk}),
             {FilesWith({}, Absent)})

NextEnrich ==
    \/ Construct
    \/ Analyze
    \/ EnhanceDirect

SpecEnrich == InitEnrich /\ [][NextEnrich]_vars

\* --------------------------------------------------------- the version file
VerAlphabet == {"1", "9", ".", "-"}

\* "1.2.3.4", "a.b.3", "1.2.3\n", " 1.2.09", "1.2.+3"
ExtraVersions ==
    {<<"1", ".", "2", ".", "3", ".", "4">>, <<"a", ".", "b", ".", "3">>,
     <<"1", ".", "2", ".", "3", "\n">>, <<" ", "1", ".", "2", ".", "0", "9">>,
     <<"1", ".", "2", ".", "+", "3">>}

Versions == StrsUpTo(VerAlphabet, MaxVerLen) \cup ExtraVersions

\* the pipeline on one tree, over every content of VERSION
InitVersion ==
    InitWith({Absent}, {None}, {Tree(StaticFrontend, FastapiBackend)},
             Envs({"none", "VERSION"},
                  {CHOOSE n \in NetFailures : n.kind = "exception"}, {GitOk}),
             {FilesWith({}, v) : v \in {Absent} \cup {File(s) : s \in Versions}})

SpecVersion == InitVersion /\ [][Next]_vars

\* the content is three dot-separated integers
WellFormedVersion(f) ==
    /\ f.k = "file"
    /\ LET p == Split(Strip(f.v), ".")
       IN Len(p) = 3 /\ \A i \in 1..3 : IsIntStr(p[i])

\* a run has just returned True, and so has every run before it
AllSucceeded ==
    /\ pc = "done"
    /\ result = "true"
    /\ \A i \in DOMAIN history : history[i] = "true"

\* C1: for a VERSION holding a well-formed X.Y.Z, after n consecutive
\* successful runs (n = 1, 2, ...) VERSION holds X.Y.(Z+n): X and Y are the
\* texts they were and the patch is the integer Z+n.
C1_PatchIncrement ==
    (AllSucceeded /\ WellFormedVersion(start["VERSION"])) =>
        /\ files["VERSION"].k = "file"
        /\ LET old == Split(Strip(start["VERSION"].v), ".")
               new == Split(files["VERSION"].v, ".")
           IN /\ Len(new) = 3
              /\ new[1] = old[1]
              /\ new[2] = old[2]
              /\ new[3] = IntToStr(IntOf(old[3]) + runs)

C1_Witness ==
    /\ AllSucceeded
    /\ runs = 2
    /\ start["VERSION"] = File(<<"1", ".", "1", ".", "9">>)
    /\ files["VERSION"] = File(<<"1", ".", "1", ".", "1", "1">>)

\* C2: for a VERSION whose content is not of the shape a.b.c, a successful
\* run leaves VERSION holding exactly 0.1.1.
C2_MalformedResets ==
    (/\ pc = "done"
     /\ result = "true"
     /\ pre["VERSION"].k = "file"
     /\ ~WellFormedVersion(pre["VERSION"])) => files["VERSION"] = File(S_0_1_1)

\* ------------------------------------------------------- the generation steps
StepOrder == <<"workflow", "trigger", "terraform", "docker", "readme", "version">>

RanNames == [i \in DOMAIN ran |-> ran[i].name]

HasRun(name) == \E i \in DOMAIN ran : ran[i].name = name

\* the step that raised in this run, if one did
SomeStepRaised == SomeRaised(ran)

\* a step before the version bump raised in this run
RaisedBeforeVersion == \E i \in DOMAIN ran : ran[i].raised /\ ran[i].name # "version"

\* how many times the run has written path p
TimesWritten(p) == Cardinality({i \in DOMAIN written : written[i][1] = p})

\* the content of the run's last write of the path written at position i
LastWrite(i) ==
    LET last == CHOOSE j \in DOMAIN written :
                    /\ written[j][1] = written[i][1]
                    /\ \A k \in DOMAIN written : written[k][1] = written[i][1] => k <= j
    IN written[last][2]

\* C3: a run that returns True has written VERSION exactly once; a run ended
\* by enrichment raising, or by a generation step before the version bump
\* raising, has not written VERSION, whose content is what the run found.
C3_VersionWrittenOnce ==
    /\ (pc = "done" /\ result = "true") => TimesWritten("VERSION") = 1
    /\ (pc = "done" /\ (result = "raised" \/ RaisedBeforeVersion))
         => (TimesWritten("VERSION") = 0 /\ files["VERSION"] = pre["VERSION"])

C3_Witness ==
    /\ pc = "done"
    /\ result = "false"
    /\ ran # <<>> /\ ran[Len(ran)].name = "readme"
    /\ pre["VERSION"].k = "file"
    /\ TimesWritten("terraform/main.tf") = 1

TerraformPaths == {p \in Paths : p # "terraform" /\ IsTerraformPath(p)}

\* main.tf, variables.tf and outputs.tf all exist in fs
ThreeDefinitionsExist(fs) ==
    /\ fs["terraform/main.tf"].k # "absent"
    /\ fs["terraform/variables.tf"].k # "absent"
    /\ fs["terraform/outputs.tf"].k # "absent"

\* C4: when main.tf, variables.tf and outputs.tf all exist as the run reaches
\* _ensure_terraform_infrastructure, the step writes nothing: every path
\* under terraform/ is as the run found it.
C4_TerraformNoOp ==
    (HasRun("terraform") /\ ThreeDefinitionsExist(pre)) =>
        \A p \in TerraformPaths \cup {"terraform"} :
            files[p] = pre[p] /\ TimesWritten(p) = 0

C4_Witness ==
    /\ HasRun("terraform")
    /\ ThreeDefinitionsExist(pre)
    /\ ~Exists(files["terraform/terraform.tfvars"])
    /\ gen.config # DefaultConfig

\* C7: the steps run in the fixed order workflow, trigger, terraform, docker,
\* readme, version; a step that raises is the last one the run enters and the
\* run returns False; a run returns True only after all six steps, none of
\* which raised; and what the run has written stays on disk.
C7_OrderedAbort ==
    /\ Len(ran) <= Len(StepOrder)
    /\ RanNames = SubSeq(StepOrder, 1, Len(ran))
    /\ \A i \in DOMAIN ran : ran[i].raised => (i = Len(ran) /\ pc = "done" /\ result = "false")
    /\ result = "false" => SomeStepRaised
    /\ result = "true" => (pc = "done" /\ RanNames = StepOrder /\ ~SomeStepRaised)
    /\ \A i \in DOMAIN written : files[written[i][1]] = LastWrite(i)

C7_Witness ==
    /\ pc = "done"
    /\ result = "false"
    /\ RanNames = <<"workflow", "trigger", "terraform">>
    /\ TimesWritten("ci-cd.yml") = 1
    /\ TimesWritten("terraform/main.tf") = 1
    /\ TimesWritten("terraform/variables.tf") = 0
    /\ Bad = "none"

\* -------------------------------------------------------------- enrichment
\* _ai_enhance_analysis has returned or raised
Enhanced == pc = "done" /\ "fail_on_ai_error" \in DOMAIN call

\* the request failed: requests.post raised (a timeout included), the status
\* is not 200, or the body of a 200 is malformed
RequestFailed ==
    \/ env.net.kind = "exception"
    \/ env.net.status # 200
    \/ ~env.net.body.ok

\* no credential: the token is None, or blank once trimmed
NoCredential == token.t = "none" \/ \A i \in DOMAIN token.v : token.v[i] = " "

Annotated == "ai_recommendations" \in DOMAIN analysis

\* C5: with fail_on_ai_error true every failed request leaves
\* _ai_enhance_analysis as an exception; with fail_on_ai_error false the call
\* never raises, and after a failed request the record it returns carries no
\* annotation.
C5_DualMode ==
    Enhanced =>
        /\ (call.fail_on_ai_error /\ ~NoCredential /\ RequestFailed) => result = "raised"
        /\ ~call.fail_on_ai_error =>
             /\ result = "returned"
             /\ (~NoCredential /\ RequestFailed) => ~Annotated

C5_Witness ==
    /\ Enhanced
    /\ ~call.fail_on_ai_error
    /\ ~NoCredential
    /\ env.net.kind = "http" /\ env.net.status = 500
    /\ netCalls = 1
    /\ result = "returned"

\* C6: with no credential, _ai_enhance_analysis sends no request; with
\* fail_on_ai_error false it returns the record it was given, with
\* fail_on_ai_error true it raises.
C6_NoCredential ==
    (Enhanced /\ NoCredential) =>
        /\ netCalls = 0
        /\ ~call.fail_on_ai_error =>
             (result = "returned" /\ analysis = AnalyzeProject(tree, pre, env.git))
        /\ call.fail_on_ai_error => result = "raised"

C6_Witness ==
    /\ Enhanced
    /\ token = PyStr(<<" ">>)
    /\ call.fail_on_ai_error
    /\ result = "raised"
    /\ netCalls = 0

\* ------------------------------------------------------------ the overrides
\* the override configuration holds no instance_type
LacksInstanceType == K_instance_type \notin DOMAIN gen.config \/ configFile.k # "file"

\* the run has written the terraform bundle
BundleWritten ==
    /\ TimesWritten("terraform/variables.tf") = 1
    /\ TimesWritten("terraform/terraform.tfvars") = 1

\* C8: for every override configuration without an instance_type key, the
\* file absent or present without the key, the instance_type default written
\* to variables.tf is t2.micro, the instance_type of the default configuration.
C8_InstanceTypeFallback ==
    (BundleWritten /\ LacksInstanceType) =>
        files["terraform/variables.tf"].v.instance_type = S_t2_micro

\* the port the claim resolves for a facet: the override when it is numeric,
\* else the port the analysis inferred, else the fixed default
ClaimedPort(key, facet, default) ==
    IF key \in DOMAIN gen.config /\ gen.config[key].t = "str" /\ IsIntStr(gen.config[key].v)
    THEN IntToStr(IntOf(gen.config[key].v))
    ELSE IF "port" \in DOMAIN analysis[facet] THEN IntToStr(analysis[facet].port)
    ELSE IntToStr(default)

\* C9: when the bundle is generated, each port written to variables.tf and
\* terraform.tfvars is the numeric override, else the port the analysis
\* inferred for the facet, else 8000 (backend) or 3000 (frontend).
C9_PortResolution ==
    BundleWritten =>
        \A p \in {"terraform/variables.tf", "terraform/terraform.tfvars"} :
            /\ files[p].v.backend_port = ClaimedPort(K_backend_port, "backend", 8000)
            /\ files[p].v.frontend_port = ClaimedPort(K_frontend_port, "frontend", 3000)

\* the workflow step has run
WorkflowDone == ran # <<>> /\ ran[1].name = "workflow"

\* the run's email_notification is the str "true" in some letter case
EmailIsTrue ==
    /\ K_email_notification \in DOMAIN gen.config
    /\ gen.config[K_email_notification].t = "str"
    /\ gen.config[K_email_notification].v \in
           {<<t, r, u, e>> : t \in {"t", "T"}, r \in {"r", "R"},
                             u \in {"u", "U"}, e \in {"e", "E"}}

HasNotification(job) == \E i \in DOMAIN job : job[i].name = "Send deployment notification"

\* C10: the deploy job holds the notification step exactly when
\* email_notification is the str "true" in some letter case; for every other
\* config (no such key, another str, a list) the workflow is written without
\* the step and the workflow step does not raise.
C10_EmailNotification ==
    WorkflowDone =>
        /\ ~ran[1].raised
        /\ files["ci-cd.yml"].k = "file"
        /\ HasNotification(files["ci-cd.yml"].v.deploy) <=> EmailIsTrue

\* ------------------------------------------------------------------- the trees
\* package.json that json.load refuses, and one holding a list
InvalidPackageFrontend ==
    [dir |-> TRUE, packageJson |-> File([json |-> "invalid"]), indexHtml |-> TRUE,
     js |-> <<>>]

ListPackageFrontend ==
    [dir |-> TRUE, packageJson |-> File([json |-> "nonobject"]), indexHtml |-> FALSE,
     js |-> <<>>]

\* a frontend directory with neither package.json nor index.html
BareFrontend == [dir |-> TRUE, packageJson |-> Absent, indexHtml |-> FALSE, js |-> <<>>]

\* source files by the patterns that match in them: none, the first, the
\* second, the first and the second, the third and the fifth; and a file
\* read_text cannot read
PortFiles ==
    {Unreadable, File(EmptyDict), File(1 :> 9090), File(2 :> 8080),
     File((1 :> 9090) @@ (2 :> 8080)), File((3 :> 6000) @@ (5 :> 7000))}

MaxFiles == 2

\* the listings of a source directory
PortFileSeqs == UNION {[1..n -> PortFiles] : n \in 0..MaxFiles}

JsFrontend(fs) == [dir |-> TRUE, packageJson |-> Absent, indexHtml |-> TRUE, js |-> fs]

\* main.py sources: none of the markers, each one in some letter case, two
\* and three of them in either order, a marker cut short
MainSources ==
    {<<>>, <<"i", "m", "p", "o", "r", "t", " ", "o", "s">>,
     <<"F", "a", "s", "t", "A", "P", "I">>, <<"F", "L", "A", "S", "K">>,
     <<"D", "j", "a", "n", "g", "o">>,
     S_flask \o <<" ">> \o S_fastapi, S_django \o S_flask,
     S_django \o <<"\n">> \o S_fastapi, S_django \o S_flask \o S_fastapi,
     <<"f", "a", "s", "t", "a", "p">>, <<"f", "l", "a", "s", " ", "k">>}

\* a backend of main.py and the listing fs
PyBackend(main, fs) == [dir |-> TRUE, requirements |-> Absent, mainPy |-> main, py |-> fs]

\* a backend of requirements.txt alone
ManifestBackend ==
    [dir |-> TRUE, requirements |-> File(S_flask \o <<"\n">>), mainPy |-> Absent,
     py |-> <<>>]

Frontends ==
    {NoFrontend, StaticFrontend, NodeFrontend, InvalidPackageFrontend,
     ListPackageFrontend, BareFrontend}

Backends == {NoBackend, BareBackend, FastapiBackend, ManifestBackend}

Trees ==
    {Tree(fe, be) : fe \in Frontends, be \in Backends}
    \cup {Tree(JsFrontend(fs), NoBackend) : fs \in PortFileSeqs}
    \cup {Tree(NoFrontend, PyBackend(File(<<>>), fs)) : fs \in PortFileSeqs}
    \cup {Tree(NoFrontend, PyBackend(File(m), <<>>)) : m \in MainSources}

\* what the two git invocations do
GitOutcomes == {"ok", "exit_nonzero", "exception"}

\* the trees, inside and outside a git repository
InitTree ==
    InitWith({Absent}, {None},
             Trees \cup {[Tree(fe, be) EXCEPT !.git = FALSE] :
                             fe \in Frontends, be \in Backends},
             Envs({"none"}, {CHOOSE n \in NetFailures : n.kind = "exception"},
                  GitOutcomes \X GitOutcomes),
             {FilesWith({}, Absent)})

SpecTree == InitTree /\ [][Next]_vars

\* the run has written ci-cd.yml
WorkflowWritten == TimesWritten("ci-cd.yml") = 1

StepNames(job) == {job[i].name : i \in DOMAIN job}

BackendStepNames ==
    {"Set up Python", "Install backend dependencies", "Lint backend code",
     "Test backend code"}

FrontendStepNames ==
    {"Set up Node.js", "Install frontend dependencies", "Lint frontend code",
     "Test frontend code"}

\* the facet exists and its field holds the value
FacetIs(facet, field, value) ==
    /\ facet.exists
    /\ field \in DOMAIN facet
    /\ facet[field] = value

\* C11: the test job of a written ci-cd.yml holds the backend steps exactly
\* when the backend facet exists with language python, and the frontend steps
\* exactly when the frontend facet exists with framework node; every lint and
\* test step in it has continue-on-error set.
C11_TestJobSteps ==
    WorkflowWritten =>
        LET job == files["ci-cd.yml"].v.test
        IN /\ (BackendStepNames \subseteq StepNames(job))
                <=> FacetIs(analysis.backend, "language", "python")
           /\ (StepNames(job) \cap BackendStepNames # {})
                <=> FacetIs(analysis.backend, "language", "python")
           /\ (FrontendStepNames \subseteq StepNames(job))
                <=> FacetIs(analysis.frontend, "framework", "node")
           /\ (StepNames(job) \cap FrontendStepNames # {})
                <=> FacetIs(analysis.frontend, "framework", "node")
           /\ \A i \in DOMAIN job :
                 job[i].name \in {"Lint backend code", "Test backend code",
                                  "Lint frontend code", "Test frontend code"}
                     => job[i].coe

\* a test job with the backend steps and, the frontend being static, without
\* the frontend steps
C11_Witness ==
    /\ WorkflowWritten
    /\ analysis.frontend.exists
    /\ BackendStepNames \subseteq StepNames(files["ci-cd.yml"].v.test)
    /\ FrontendStepNames \cap StepNames(files["ci-cd.yml"].v.test) = {}

\* the run has analysed the tree
Analysed == "backend" \in DOMAIN analysis

\* C12: the backend facet has exists = TRUE only if backend/requirements.txt
\* or backend/main.py is present; a backend directory holding neither yields
\* exists = FALSE.
C12_BackendExists ==
    Analysed =>
        (analysis.backend.exists
            => Exists(tree.backend.requirements) \/ Exists(tree.backend.mainPy))

\* the lower-cased source of backend/main.py holds the marker
HasMarker(m) ==
    /\ tree.backend.mainPy.k = "file"
    /\ Contains(Lower(tree.backend.mainPy.v), m)

\* C13: the framework of a python backend is fastapi when the lower-cased
\* main.py holds fastapi; else flask when it holds flask; else django when it
\* holds django; it is unknown when it holds none of them or main.py does not
\* exist.
C13_FrameworkPrecedence ==
    (Analysed /\ "framework" \in DOMAIN analysis.backend) =>
        analysis.backend.framework =
            IF HasMarker(S_fastapi) THEN "fastapi"
            ELSE IF HasMarker(S_flask) THEN "flask"
            ELSE IF HasMarker(S_django) THEN "django"
            ELSE "unknown"

\* a main.py holding django, flask and, last, fastapi is classified fastapi
C13_Witness ==
    /\ Analysed
    /\ HasMarker(S_flask)
    /\ HasMarker(S_django)
    /\ "framework" \in DOMAIN analysis.backend
    /\ analysis.backend.framework = "fastapi"

\* the files of the listing that can be read and in which a pattern matches
Matching(fs) == {i \in DOMAIN fs : fs[i].k = "file" /\ DOMAIN fs[i].v # {}}

\* the capture of the first pattern to match in the first such file, else the
\* default
FirstMatch(fs, default) ==
    IF Matching(fs) = {} THEN default
    ELSE LET i == CHOOSE x \in Matching(fs) : \A y \in Matching(fs) : x <= y
             p == CHOOSE x \in DOMAIN fs[i].v : \A y \in DOMAIN fs[i].v : x <= y
         IN fs[i].v[p]

\* C14: the inferred port is the capture of the first pattern, in precedence
\* order, to match in the first file, in listing order, in which any pattern
\* matches, unreadable files skipped; it is 8000 for the backend and 3000 for
\* the frontend when no file matches.
C14_PortInference ==
    Analysed =>
        /\ "port" \in DOMAIN analysis.backend
              => analysis.backend.port = FirstMatch(tree.backend.py, 8000)
        /\ "port" \in DOMAIN analysis.frontend
              => analysis.frontend.port = FirstMatch(tree.frontend.js, 3000)

\* an unreadable file, then one in which two patterns match
C14_Witness ==
    /\ Analysed
    /\ "port" \in DOMAIN analysis.backend
    /\ Len(tree.backend.py) = 2
    /\ tree.backend.py[1] = Unreadable
    /\ tree.backend.py[2] = File((1 :> 9090) @@ (2 :> 8080))
    /\ analysis.backend.port = 9090

\* C15: for every analysis record the analyzer returns, with no write failing
\* and the default configuration, no generation step raises: a facet field is
\* read only where the facet's flags guarantee it was set.
C15_NoAbsentFieldRead == \A i \in DOMAIN ran : ~ran[i].raised

\* C16: in a git repository, when either of the two git invocations fails, by
\* an exception or by a failing exit, the analysis completes and the git
\* facet holds neither current_branch nor remote_url.
C16_GitFailure ==
    (pc \notin {"idle", "analyze"} /\ tree.git
        /\ \E i \in 1..2 : env.git[i] \in {"exception", "exit_nonzero"}) =>
        /\ Analysed
        /\ "current_branch" \notin DOMAIN analysis.git
        /\ "remote_url" \notin DOMAIN analysis.git

\* ------------------------------------------------------------------------ main
\* backend/requirements.txt cannot be opened
UnreadableBackend ==
    [dir |-> TRUE, requirements |-> Unreadable, mainPy |-> Absent, py |-> <<>>]

ArgSets == [analyze_only : BOOLEAN, auto_commit : BOOLEAN, verbose : BOOLEAN]

\* main with every command line, with and without a credential, on trees
\* that analyse and generate, that fail generation and that fail analysis
InitMain ==
    InitArgs({Absent, ListEmailConfig},
             {None, PyStr(<<"k">>), PyStr(<<" ">>)},
             {Tree(StaticFrontend, FastapiBackend), Tree(ListPackageFrontend, NoBackend),
              Tree(NoFrontend, UnreadableBackend)},
             Envs({"none", "README.md"},
                  {n \in NetFailures : n.kind = "http" => n.status # 401}
                      \cup {r \in NetReplies : r.body.content.json},
                  {GitOk}),
             {FilesWith({}, Absent), FilesWith(Paths, File(S_1_2_3))},
             ArgSets)

SpecMain == InitMain /\ [][NextMain]_vars

\* main has ended
Exited == exit_status # "running"

\* enrichment was asked for explicitly and attached nothing
EnrichmentFatal ==
    /\ "fail_on_ai_error" \in DOMAIN call
    /\ call.fail_on_ai_error
    /\ ~Annotated

\* the run did all it was asked to
Succeeded ==
    /\ Analysed
    /\ "fail_on_ai_error" \in DOMAIN call
    /\ ~EnrichmentFatal
    /\ ~args.analyze_only =>
          /\ result = "true"
          /\ RanNames = StepOrder
          /\ ~SomeStepRaised

\* C17: main exits with status 1 whenever generate_pipeline returned False or
\* enrichment failed fatally, with and without --analyze-only, and exits with
\* status 0 only after a run that succeeded.
C17_ExitStatus ==
    Exited =>
        /\ result = "false" => exit_status = "exit1"
        /\ EnrichmentFatal => exit_status = "exit1"
        /\ exit_status = "exit0" => Succeeded

\* a False return in generation mode has ended in status 1
C17_Witness ==
    /\ Exited
    /\ ~args.analyze_only
    /\ result = "false"
    /\ exit_status = "exit1"

\* C18: after a request answered with status 200 and a reply content, the
\* record holds under ai_recommendations the decoded JSON value when the
\* content decodes and the freeform annotation of the raw text otherwise;
\* after an answer with any other status it holds no annotation.
C18_Attachment ==
    (Enhanced /\ ~NoCredential /\ env.net.kind = "http") =>
        IF env.net.status = 200
        THEN env.net.body.ok =>
                /\ Annotated
                /\ analysis.ai_recommendations.text = env.net.body.content.text
                /\ analysis.ai_recommendations.t =
                      IF env.net.body.content.json THEN "json" ELSE "freeform"
        ELSE ~Annotated

\* ------------------------------------------------------------ the override file
\* lines of an override file: a comment, a blank line, a line without a
\* colon, a pair with blanks around key and value, a pair whose value holds a
\* colon, a bracketed value, a plain pair
SampleLines ==
    {<<"#", " ", "k", ":", " ", "v">>,
     <<" ">>,
     <<"d", "e", "v">>,
     <<" ", "e", "n", "v", "i", "r", "o", "n", "m", "e", "n", "t", " ", ":", " ", "d", "e", "v", " ">>,
     <<"e", "n", "v", "i", "r", "o", "n", "m", "e", "n", "t", ":", " ", "a", ":", "b">>,
     <<"l", "a", "b", "e", "l", "s", ":", " ", "[", " ", "a", " ", ",", " ", "b", " ", "]">>,
     <<"e", "m", "a", "i", "l", "_", "n", "o", "t", "i", "f", "i", "c", "a", "t", "i", "o", "n", ":", " ", "f", "a", "l", "s", "e">>}

MaxLines == 3

LoadFiles ==
    {Absent, Unreadable}
    \cup {File(ls) : ls \in UNION {[1..n -> SampleLines] : n \in 0..MaxLines}}

InitLoad ==
    InitWith(LoadFiles, {None}, {Tree(StaticFrontend, FastapiBackend)},
             Envs({"none"}, {CHOOSE n \in NetFailures : n.kind = "exception"},
                  {GitOk}),
             {FilesWith({}, Absent)})

SpecLoad == InitLoad /\ [][Next]_vars

\* the generator of the run has been constructed
Constructed == pc # "idle"

\* the lines of the file that hold a pair: not blank, not a comment, with a
\* colon
PairLines ==
    {i \in DOMAIN configFile.v :
        LET line == Strip(configFile.v[i])
        IN line # <<>> /\ Head(line) # "#" /\ IndexOf(line, ":") > 0}

\* the key of a pair line: the text before its first colon, trimmed
KeyOf(i) ==
    LET line == Strip(configFile.v[i])
    IN Strip(SubSeq(line, 1, IndexOf(line, ":") - 1))

\* the text after the first colon of a pair line, trimmed
TextOf(i) ==
    LET line == Strip(configFile.v[i])
    IN Strip(SubSeq(line, IndexOf(line, ":") + 1, Len(line)))

\* the value of a pair line: the trimmed elements between the brackets, split
\* at the commas, or the text itself
ValueOf(i) ==
    LET text == TextOf(i)
    IN IF Len(text) >= 2 /\ text[1] = "[" /\ text[Len(text)] = "]"
       THEN LET parts == Split(SubSeq(text, 2, Len(text) - 1), ",")
            IN [t |-> "list", v |-> [j \in DOMAIN parts |-> Strip(parts[j])]]
       ELSE [t |-> "str", v |-> text]

\* C19: the loaded config is the default mapping when the override file does
\* not exist or cannot be read; otherwise its keys are exactly the keys of the
\* pair lines of the file, each with the value of the last line holding it,
\* and no default key is merged in.
C19_LoadConfig ==
    Constructed =>
        IF configFile.k # "file" THEN gen.config = DefaultConfig
        ELSE /\ DOMAIN gen.config = {KeyOf(i) : i \in PairLines}
             /\ \A i \in PairLines :
                   (\A j \in PairLines : KeyOf(j) = KeyOf(i) => j <= i)
                       => gen.config[KeyOf(i)] = ValueOf(i)

\* a file of a comment and two pairs of the same key has given one key, with
\* the value of the later line, colon included
C19_Witness ==
    /\ Constructed
    /\ configFile.k = "file"
    /\ Len(configFile.v) = 3
    /\ Cardinality(PairLines) = 2
    /\ DOMAIN gen.config = {K_environment}
    /\ gen.config[K_environment] = PyStr(<<"a", ":", "b">>)

\* C20: with --analyze-only no generation step runs and no workflow, terraform,
\* README or VERSION file is created or modified, whether enrichment attaches
\* an annotation, attaches none or raises.
C20_AnalyzeOnly ==
    args.analyze_only =>
        /\ ran = <<>>
        /\ written = <<>>
        /\ \A p \in Paths : files[p] = start[p]

\* an analyze-only run ended after a request that was answered
C20_Witness ==
    /\ args.analyze_only
    /\ Exited
    /\ exit_status = "exit0"
    /\ netCalls = 1
    /\ Annotated
    /\ \A p \in Paths : Exists(files[p])

\* ------------------------------------------------------------ the annotation
\* the record of the run as analyze_project returned it, before enrichment
Unannotated == AnalyzeProject(tree, pre, env.git)

\* what the six steps write, in order, for an analysis record on the tree and
\* the config of the run
WritesFor(record) ==
    GenerateGithubWorkflow(gen.config, record, "none").writes
    \o GenerateAiWorkflowTrigger(runs, "none").writes
    \o EnsureTerraformInfrastructure(gen.config, record, pre, "none").writes
    \o UpdateReadme(record, pre, runs, "none").writes
    \o IncrementVersion(pre, "none").writes

\* C21: a successful run writes what a run on the same tree and config with
\* the record without ai_recommendations writes: the same workflow, trigger
\* workflow, terraform files, README values and version.
C21_AnnotationInformational ==
    (pc = "done" /\ result = "true") => written = WritesFor(Unannotated)

\* a successful run whose record carried an annotation
C21_Witness ==
    /\ pc = "done"
    /\ result = "true"
    /\ Annotated
    /\ analysis # Unannotated
    /\ TimesWritten("README.md") = 1

\* -------------------------------------------------------------- the analysis
\* the trees, with and without terraform files, analysed and analysed again
InitAnalyze ==
    InitWith({Absent}, {None},
             Trees \cup {[Tree(fe, be) EXCEPT !.git = FALSE] :
                             fe \in Frontends, be \in Backends},
             Envs({"none"}, {CHOOSE n \in NetFailures : n.kind = "exception"},
                  GitOutcomes \X GitOutcomes),
             {FilesWith(tf, Absent) : tf \in {{}, {"terraform"} \cup TfNames}})

NextAnalyze ==
    \/ Construct
    \/ Analyze
    \/ AnalyzeAgain

SpecAnalyze == InitAnalyze /\ [][NextAnalyze]_vars

C23_AtMostOneRequest ==
    /\ netCalls <= 1
    /\ NoCredential => netCalls = 0

\* a run ended by a request that failed, sent once
C23_Witness ==
    /\ Exited
    /\ ~NoCredential
    /\ RequestFailed
    /\ netCalls = 1
    /\ result = "raised"

\* ------------------------------------------------------------------ the QR service alone
MaxData == 3

ApiAlphabet == {"a", "1", "@", ".", ",", " "}

S_a_b_co == <<"a", "@", "b", ".", "c", "o">>
S_5550100 == <<"5", "5", "5", "-", "0", "1", "0", "0">>

DataTypes == {"email", "phone", "url", "wifi", "text", "other"}

Requests ==
    [data : StrsUpTo(ApiAlphabet, MaxData) \cup {S_a_b_co, S_5550100},
     data_type : DataTypes]

InitApi ==
    /\ InitRun({Absent}, {None}, {Tree(NoFrontend, NoBackend)},
               Envs({"none"}, {CHOOSE n \in NetFailures : n.kind = "exception"}, {GitOk}),
               {FilesWith({}, Absent)}, {GenerateArgs})
    /\ request \in Requests
    /\ response = NoResponse

SpecApi == InitApi /\ [][NextApi]_vars

Answered == response # NoResponse

\* C24: an empty data string is answered with a status of the 400 class, whatever
\* the data_type
C24_EmptyDataRejected ==
    (Answered /\ request.data = <<>>) => response.status \in 400..499

\* the formatter rejects an input: the answer is 400, never an image
C24_RejectedIs400 ==
    (Answered /\ FormatDataForQr(request.data, request.data_type).raised)
        => response = Response(BadRequest, "application/json")

\* an e-mail address, a telephone number, a host name and a network are accepted
C24_Accepted ==
    /\ Answered
    /\ response.status = Ok
    /\ \/ request = [data |-> S_a_b_co, data_type |-> "email"]
       \/ request = [data |-> S_5550100, data_type |-> "phone"]

\* the version the run found: the trimmed content of VERSION, '0.1.0' without one
VersionFound == IF pre["VERSION"].k = "absent" THEN S_0_1_0 ELSE Strip(pre["VERSION"].v)

\* C25: after a run that returned True, the version README.md quotes is the
\* version the run found (0.1.0 when there was no VERSION), and differs from
\* the content VERSION has at the end of the run.
C25_ReadmeQuotesOldVersion ==
    (pc = "done" /\ result = "true")
        => /\ files["README.md"].k = "file"
           /\ files["README.md"].v.version = VersionFound
           /\ files["VERSION"].k = "file"
           /\ files["README.md"].v.version # files["VERSION"].v

\* the second run in a row returned True on a tree that had no VERSION: README.md
\* quotes 0.1.1, the first run's bump, and VERSION holds 0.1.2
C25_Witness ==
    /\ AllSucceeded
    /\ runs = 2
    /\ start["VERSION"] = Absent
    /\ files["README.md"].v.version = S_0_1_1
    /\ files["VERSION"].v # S_0_1_1

\* the order in which _ensure_terraform_infrastructure creates the bundle
BundleOrder ==
    <<"terraform", "terraform/main.tf", "terraform/user_data.sh",
      "terraform/variables.tf", "terraform/outputs.tf",
      "terraform/terraform.tfvars", "terraform/terraform.tfvars.example">>

\* the paths under terraform/ the run has written, in the order of the writes
TerraformWritten ==
    LET w == SelectSeq(written, LAMBDA x : x[1] \in TerraformPaths \cup {"terraform"})
    IN [i \in DOMAIN w |-> w[i][1]]

TerraformStepReturned ==
    \E i \in DOMAIN ran : ran[i].name = "terraform" /\ ~ran[i].raised

\* C26: when main.tf, variables.tf or outputs.tf is missing as the run reaches
\* _ensure_terraform_infrastructure, the step writes the bundle from its first
\* file on, in the bundle's order, whichever files exist; a step that returns
\* has written all six files once, and none of them holds what the user had
\* put there.
C26_WholeBundle ==
    (HasRun("terraform") /\ ~ThreeDefinitionsExist(pre)) =>
        /\ TerraformWritten = SubSeq(BundleOrder, 1, Len(TerraformWritten))
        /\ TerraformStepReturned =>
              /\ TerraformWritten = BundleOrder
              /\ \A p \in TerraformPaths :
                    /\ TimesWritten(p) = 1
                    /\ files[p].k = "file"
                    /\ files[p] # UserFile

\* main.tf and terraform.tfvars existed, variables.tf and outputs.tf did not:
\* the step has returned and both existing files have a new content
C26_Witness ==
    /\ TerraformStepReturned
    /\ pre["terraform/main.tf"] = UserFile
    /\ pre["terraform/terraform.tfvars"] = UserFile
    /\ pre["terraform/variables.tf"] = Absent
    /\ files["terraform/main.tf"] # UserFile
    /\ files["terraform/terraform.tfvars"] # UserFile

\* C27: nothing is written before enrichment has returned; when enrichment
\* fails fatally the run has entered no generation step and written nothing,
\* every path is as the run found it, and generate_pipeline is left by the
\* exception, not by a return of False.
C27_EnrichmentBeforeWrites ==
    /\ (written # <<>> \/ ran # <<>>) =>
          ("fail_on_ai_error" \in DOMAIN call /\ ~EnrichmentFatal)
    /\ EnrichmentFatal =>
          /\ pc = "done"
          /\ result = "raised"
          /\ ran = <<>>
          /\ written = <<>>
          /\ files = pre

\* enrichment failed fatally on a tree that already held terraform files of
\* the user
C27_Witness ==
    /\ EnrichmentFatal
    /\ result = "raised"
    /\ pre["terraform/main.tf"] = UserFile
    /\ files = pre

\* the answer has status 200 and a content that decodes to a falsy JSON value
FalsyReply ==
    /\ env.net.kind = "http"
    /\ env.net.status = 200
    /\ env.net.body.ok
    /\ env.net.body.content.json
    /\ ~env.net.body.content.truthy

\* C28: after a 200 answer whose content decodes to a falsy JSON value the
\* record carries no annotation; with fail_on_ai_error the call raises, and
\* without it the call returns the record as analyze_project made it.
C28_FalsyReply ==
    (Enhanced /\ ~NoCredential /\ FalsyReply) =>
        /\ ~Annotated
        /\ netCalls = 1
        /\ call.fail_on_ai_error => result = "raised"
        /\ ~call.fail_on_ai_error => (result = "returned" /\ analysis = Unannotated)

\* '{}' answered to a call with fail_on_ai_error: the call has raised
C28_Witness ==
    /\ Enhanced
    /\ ~NoCredential
    /\ FalsyReply
    /\ call.fail_on_ai_error
    /\ result = "raised"
    /\ netCalls = 1

InfraStepNames == {"Setup Terraform", "Terraform Format Check", "Terraform Validate"}

\* the workflow file f has the three terraform steps in its validate job
HasInfraSteps(f) == InfraStepNames \subseteq StepNames(f.v.validate)

\* the workflow file f has none of them
HasNoInfraStep(f) == InfraStepNames \cap StepNames(f.v.validate) = {}

\* every run before this one returned True
EarlierRunsSucceeded ==
    /\ Len(history) = runs - 1
    /\ \A i \in DOMAIN history : history[i] = "true"

EnrichmentCalled == "fail_on_ai_error" \in DOMAIN call

====
